---- MODULE Spec2Model ----
(***************************************************************************)
(* Model of PyMPLE (src/PyMPLE.py): profile-likelihood confidence          *)
(* intervals.  One session object `self` is constructed on a Pyomo model   *)
(* `m`, get_CI drives step_CI upward and downward for every profiled       *)
(* parameter, to_json / load_json persist the result.                      *)
(*                                                                         *)
(* Representation of floats.  Parameter values, steps and bounds are held  *)
(* exactly as integers in units of 1/VDen; step fractions as integers in   *)
(* units of 1/SFDen.  SFDen holds MaxSteps factors of 20, so that the      *)
(* multiplication by 1.05 = 21/20 of line 126 is exact for as many         *)
(* iterations as a run can make.  Optimal values and bounds lie on a grid  *)
(* of 4 units; bd_eps (1.0e-5) and the 1e-10 floor lie strictly between 0  *)
(* and one grid step, with floor < bd_eps, as in the source.  Objective    *)
(* values are the powers e^0..e^4 in hundredths; np_log is their log.      *)
(* +inf and -inf are the sentinels PosInf and NegInf, beyond every value.  *)
(***************************************************************************)
EXTENDS Integers, Sequences, FiniteSets, TLC

\* ---------------------------------------------------------------- bounds
MaxSteps == 3        \* largest maxSteps given to get_CI, one profiled parameter
MaxPairSteps == 2    \* largest maxSteps given to get_CI, two profiled parameters

\* ------------------------------------------------------- number encoding
RECURSIVE Pow20(_)
Pow20(n) == IF n = 0 THEN 1 ELSE 20 * Pow20(n - 1)

Max(a, b) == IF a >= b THEN a ELSE b

SFDen == 4 * Pow20(Max(MaxSteps, MaxPairSteps))   \* units of a step fraction
VDen == 4 * SFDen                                  \* units of a parameter value

PosInf == 2000000000      \* float('Inf'), np.inf
NegInf == -2000000000     \* -np.inf

bd_eps == 2               \* 1.0e-5, below one grid step of 4 units
LB_FLOOR == 1             \* 1e-10, positive and below bd_eps

Abs(x) == IF x < 0 THEN -x ELSE x

\* np.log on the objective values the solver can report (hundredths of e^n)
ObjValues == {100, 272, 739, 2009, 5460}
np_log(o) ==
    CASE o = 100 -> 0
      [] o = 272 -> 1
      [] o = 739 -> 2
      [] o = 2009 -> 3
      [] o = 5460 -> 4

\* chi2.isf(alpha, 1) in hundredths, alpha in percent
Alphas == {5, 32}
chi2_isf(alpha) == IF alpha = 5 THEN 384 ELSE 99

\* ------------------------------------------------------------ Python dict
EmptyDict == << >>

\* d[k] = v
DictSet(d, k, v) == [x \in (DOMAIN d) \cup {k} |-> IF x = k THEN v ELSE d[x]]

\* d.pop(k, None)
DictPop(d, k) == [x \in (DOMAIN d) \ {k} |-> d[x]]

\* {**a, **b}
DictMerge(a, b) ==
    [x \in (DOMAIN a) \cup (DOMAIN b) |-> IF x \in DOMAIN b THEN b[x] ELSE a[x]]

\* setattr(o, a, v) on the attribute dictionary of an object
SetAttr(o, a, v) == DictSet(o, a, v)

HasAttr(o, a) == a \in DOMAIN o

\* ----------------------------------------------------------------- names
\* A name is the sequence of its '_'-separated parts: <<"k", "up">> is "k_up".
k1 == <<"k">>
k2 == <<"k", "up">>

\* str(i) for the iteration numbers a key can hold
str(n) ==
    CASE n = -1 -> "-1"
      [] n = 0 -> "0"
      [] n = 1 -> "1"
      [] n = 2 -> "2"
      [] n = 3 -> "3"
      [] n = 4 -> "4"
      [] OTHER -> "5"

\* a key without the parameter name
Join_noname(pname, d, n) == <<d, str(n)>>

\* '_'.join([pname, dr, str(i)])
Join(pname, d, n) == pname \o <<d, str(n)>>

\* -------------------------------------------------------- Pyomo bounds
\* A side of Var.bounds is None or a number.
None == [isNone |-> TRUE, v |-> 0]
Num(x) == [isNone |-> FALSE, v |-> x]

\* truth value of a bound in `if self.pbounds[pname][1]:`
Truthy(b) == (~b.isNone) /\ b.v # 0

\* '{:<.3g}'.format(b) raises TypeError on None
FormatRaises(b) == b.isNone

\* ------------------------------------------------------------- scenarios
\* The fitted models a session is built on: for every variable its optimal
\* value and its (lower, upper) bounds, and the optimal objective.
Var(opt, lb, ub) == [value |-> opt * VDen, bounds |-> <<lb, ub>>, fixed |-> FALSE]

Half == VDen \div 2

VarCases ==
    { Var(2, Num(VDen), Num(3 * VDen)),
      Var(2, Num(VDen), Num(2 * VDen + Half)),
      Var(2, Num(0), Num(3 * VDen)),
      Var(2, None, Num(3 * VDen)),
      Var(2, Num(VDen), None),
      Var(2, None, None),
      Var(-2, Num(-3 * VDen), Num(-VDen)),
      Var(-2, Num(-3 * VDen), Num(0)),
      Var(0, Num(-VDen), Num(VDen)) }

PairCases ==
    { Var(2, Num(VDen), Num(3 * VDen)),
      Var(2, Num(VDen), None) }

Model(vars, o) == [vars |-> vars, obj |-> o, transformed |-> FALSE]

OneParModels ==
    { Model([n \in {k1} |-> c], o) : c \in VarCases, o \in {100, 739} }

TwoParModels ==
    { Model([n \in {k1, k2} |-> IF n = k1 THEN Var(2, Num(VDen), Num(3 * VDen)) ELSE c], 739) :
        c \in PairCases }

Models == OneParModels \cup TwoParModels

\* the model on which every combination of constructor arguments is tried
BaseModel == Model([n \in {k1} |-> Var(2, Num(VDen), Num(3 * VDen))], 739)

\* pnames a caller can ask for on a model: its variables in any order
Orders(S) ==
    IF Cardinality(S) = 1 THEN { <<n>> : n \in S }
    ELSE { s \in S \X S : s[1] # s[2] } \cup { <<n>> : n \in S }

\* the discretization identifier given to the constructor
DaeArgs == {"None", "str", "nonstr"}

StepFracs == { SFDen \div 4 }     \* stepfrac = 0.25

VARIABLES
    pc,          \* position of the client: new, ready, param, loop, solve, ret, done, failed
    exc,         \* exception that left the last call, or "none"
    self,        \* attributes of the session object
    fresh,       \* attributes of a second session built on the same model
    m,           \* the Pyomo model (self.m), mutated in place
    args,        \* arguments the constructor was called with
    fs,          \* files, by name
    io,          \* the last to_json / load_json: <<call, file name, exception or "none">>
    result,      \* value returned by get_CI
    \* locals of get_CI
    pidx, parub, parlb, ci_var_dict, ci_obj_dict, ci_stepfrac,
    \* locals of step_CI
    dr, bound, stepfrac, def_SF, i, err, pstep, pardr, nextdr, bdreach,
    var_dict, obj_dict, ret, outcome, nsolves,
    \* history of the runs of step_CI
    nslow,       \* successive iterations of the current run with d <= 0.01
    sf_hist,     \* stepfrac after every successful iteration of the current run
    up_sf_hist   \* sf_hist of the upward run, during the downward run of a parameter

ciVars == <<pidx, parub, parlb, ci_var_dict, ci_obj_dict, ci_stepfrac>>
stepVars == <<dr, bound, stepfrac, def_SF, i, err, pstep, pardr, nextdr, bdreach,
              var_dict, obj_dict, ret, outcome, nsolves, nslow, sf_hist, up_sf_hist>>
ioVars == <<fresh, fs, io>>
vars == <<pc, exc, self, m, args, result, ciVars, stepVars, ioVars>>

NoFile == [exists |-> FALSE, data |-> EmptyDict]

\* a file somebody else wrote: one persisted field, one session attribute
\* that is not persisted, one key that is no attribute at all
ForeignFile ==
    [exists |-> TRUE,
     data |-> [x \in {"alpha", "popt", "note"} |->
                 CASE x = "alpha" -> [t |-> "number", v |-> 32, members |-> EmptyDict]
                   [] x = "popt" -> [t |-> "object", v |-> 0, members |-> EmptyDict]
                   [] OTHER -> [t |-> "string", v |-> 0, members |-> EmptyDict]]]

FileNames == {"out.json", "other.json"}

Init ==
    /\ pc = "new"
    /\ exc = "none"
    /\ self = EmptyDict
    /\ fresh = EmptyDict
    /\ m \in Models
    /\ args \in [pnames : Orders(DOMAIN m.vars), dae : DaeArgs, presolve : BOOLEAN]
    /\ (m # BaseModel) => (args.dae = "None" /\ ~args.presolve)
    /\ fs = [f \in FileNames |-> IF f = "other.json" THEN ForeignFile ELSE NoFile]
    /\ io = <<"none", "none", "none">>
    /\ result = EmptyDict
    /\ pidx = 0 /\ parub = EmptyDict /\ parlb = EmptyDict
    /\ ci_var_dict = EmptyDict /\ ci_obj_dict = EmptyDict /\ ci_stepfrac = 0
    /\ dr = "none" /\ bound = 0 /\ stepfrac = 0 /\ def_SF = 0 /\ i = 0 /\ err = 0
    /\ pstep = 0 /\ pardr = 0 /\ nextdr = 0 /\ bdreach = FALSE
    /\ var_dict = EmptyDict /\ obj_dict = EmptyDict /\ ret = 0
    /\ outcome = "none" /\ nsolves = 0
    /\ nslow = 0 /\ sf_hist = << >> /\ up_sf_hist = << >>

\* ------------------------------------------------------------ __init__
\* `if dae` : None is false, a non-empty string or another object is true
DaeTruthy(dae) == dae # "None"

\* lines 26-28: the constructor raises TypeError
CtorRaises(dae, presolve) == DaeTruthy(dae) /\ presolve /\ dae # "str"

\* lines 29-30: the transformation is applied
CtorTransforms(dae, presolve) == DaeTruthy(dae) /\ presolve

\* lines 37-48: the attributes of a constructed session
NewSession(mdl, pnames) ==
    LET P == { pnames[j] : j \in 1..Len(pnames) } IN
    [a \in {"solver", "m", "pnames", "obj", "plist", "popt", "pbounds"} |->
       CASE a = "solver" -> <<"ipopt">>
         [] a = "m" -> <<"model">>
         [] a = "pnames" -> pnames
         [] a = "obj" -> mdl.obj
         [] a = "plist" -> [p \in P |-> p]
         [] a = "popt" -> [p \in P |-> mdl.vars[p].value]
         [] a = "pbounds" -> [p \in P |-> mdl.vars[p].bounds]]

\* PyMPLE(model, pnames, dae=..., presolve=...); the presolve of line 32
\* succeeds (solved) or raises
Construct(solved) ==
    /\ pc = "new"
    /\ IF CtorRaises(args.dae, args.presolve)
         THEN /\ pc' = "failed"
              /\ exc' = "TypeError"
              /\ UNCHANGED <<self, fresh, m>>
         ELSE IF args.presolve /\ ~solved
         THEN /\ pc' = "failed"
              /\ exc' = "SolveError"
              /\ m' = [m EXCEPT !.transformed = CtorTransforms(args.dae, args.presolve)]
              /\ UNCHANGED <<self, fresh>>
         ELSE /\ pc' = "ready"
              /\ exc' = "none"
              /\ m' = [m EXCEPT !.transformed = CtorTransforms(args.dae, args.presolve)]
              /\ self' = NewSession(m', args.pnames)
              /\ fresh' = NewSession(m', args.pnames)
    /\ UNCHANGED <<args, fs, io, result, ciVars, stepVars>>

\* ------------------------------------------------------------- step_CI
\* lines 64-68 and 74-77: the target bound of a run
TargetBound(pb, d) ==
    IF d = "up"
      THEN IF Truthy(pb[2]) THEN pb[2].v ELSE PosInf
      ELSE IF Truthy(pb[1]) THEN pb[1].v ELSE LB_FLOOR

\* lines 71, 81
BdEps(d) == IF d = "up" THEN bd_eps ELSE -bd_eps

\* lines 80, 87: the signed step fraction of a run
SignedStepfrac(d, sf) == IF d = "up" THEN sf ELSE -sf

\* lines 98-101 and 144-147
BdReach(d, nx, bd) == IF d = "up" THEN nx > bd ELSE nx < bd

\* stepfrac * self.popt[pname], in units of a parameter value
StepOf(sf, popt) == sf * (popt \div SFDen)

\* line 126: 1.05 * stepfrac
Grow(sf) == (sf * 21) \div 20

\* lines 119-121 and 125: d <= 0.01 for i > 0, with numpy's division by zero
\* (x/0.0 = inf, x/-0.0 = -inf, 0/0 = nan, and nan <= 0.01 is false)
SlowRel(prev, cur, sf) ==
    LET num == Abs(np_log(prev) - np_log(cur))
        den == Abs(np_log(prev)) * sf
    IN  IF den > 0 THEN num * SFDen * 100 <= den
        ELSE IF den < 0 THEN TRUE
        ELSE (sf < 0) /\ (num > 0)

\* lines 117-125: the step is too small
Slow(it, e, od, pname, d, cur, sf) ==
    IF it > 0 THEN SlowRel(od[Join(pname, d, it - 1)], cur, sf)
    ELSE e <= 1

\* a step control that never goes back to the original step fraction
NextStepfrac_noreset(slow, sf, dsf) == IF slow THEN Grow(sf) ELSE sf

\* lines 125-128
NextStepfrac(slow, sf, dsf) == IF slow THEN Grow(sf) ELSE dsf

\* a baseline read from the model, whose objective every solve overwrites
Baseline_model(s, mdl) == mdl.obj

\* line 89: _obj_CI = value(self.obj), the float stored by line 40
Baseline(s, mdl) == s.obj

\* the statistic without the baseline objective
ErrOf_nobase(o, base) == 200 * np_log(o)

\* line 112, in hundredths
ErrOf(o, base) == 200 * (np_log(o) - np_log(base))

\* line 103
LoopCond(it, ctol, e, etol, bdr) == it < ctol /\ e <= etol /\ ~bdr

\* lines 138-141
Infinity(d) == IF d = "up" THEN PosInf ELSE NegInf

\* a rollback to the first record of the run instead of the last one
Rollback_first(vd, pname, d, it) == vd[Join(pname, d, 0)]

\* line 159: the value the except clause rolls back to
Rollback(vd, pname, d, it) == vd[Join(pname, d, it - 1)]

pname == self.pnames[pidx]

\* self.plist[p].fix()
Fix(mdl, p) == [mdl EXCEPT !.vars[p].fixed = TRUE]

\* an unfix that is left out
Unfix_forgotten(mdl, p) == mdl

\* self.plist[p].unfix()
Unfix(mdl, p) == [mdl EXCEPT !.vars[p].fixed = FALSE]

\* self.plist[p].set_value(v)
SetValue(mdl, p, v) == [mdl EXCEPT !.vars[p].value = v]

\* lines 63-101: step_CI(pname, dr=d, stepfrac=sf) up to the loop
EnterStepCI(p, d, sf) ==
    /\ dr' = d
    /\ bound' = TargetBound(self.pbounds[p], d)
    /\ stepfrac' = SignedStepfrac(d, sf)
    /\ def_SF' = SignedStepfrac(d, sf)
    /\ var_dict' = EmptyDict
    /\ obj_dict' = EmptyDict
    /\ i' = 0
    /\ err' = 0
    /\ pstep' = 0
    /\ pardr' = self.popt[p]
    /\ nextdr' = self.popt[p] - BdEps(d)
    /\ bdreach' = BdReach(d, nextdr', bound')
    /\ ret' = 0
    /\ outcome' = "STEPPING"
    /\ nsolves' = 0
    /\ nslow' = 0
    /\ sf_hist' = << >>
    /\ up_sf_hist' = IF d = "down" THEN sf_hist ELSE << >>

\* line 103, then lines 104-109 up to the call of the solver; a loop that
\* is not entered falls off the end of step_CI, which returns None, and the
\* unpacking of line 194 / 208 raises TypeError
LoopTest ==
    /\ pc = "loop"
    /\ IF LoopCond(i, self.ctol, err, chi2_isf(self.alpha), bdreach)
         THEN /\ pstep' = pstep + StepOf(stepfrac, self.popt[pname])
              /\ pardr' = self.popt[pname] + pstep'
              /\ m' = SetValue(m, pname, pardr')
              /\ nsolves' = nsolves + 1
              /\ pc' = "solve"
              /\ UNCHANGED <<exc, outcome>>
         ELSE /\ outcome' = "NO_RESULT"
              /\ exc' = "TypeError"
              /\ pc' = "done"
              /\ UNCHANGED <<pstep, pardr, m, nsolves>>
    /\ UNCHANGED <<self, args, result, ciVars, ioVars, dr, bound, stepfrac, def_SF,
                   i, err, nextdr, bdreach, var_dict, obj_dict, ret,
                   nslow, sf_hist, up_sf_hist>>

\* the bound test ahead of the budget test
StopKind_boundfirst(e, etol, it, ctol, crossed) ==
    IF e > etol THEN "CONVERGED"
    ELSE IF crossed THEN "BOUND_REACHED"
    ELSE IF it = ctol - 1 THEN "BUDGET_EXHAUSTED"
    ELSE "STEPPING"

\* lines 132-152: the stop condition that fires after a successful solve;
\* crossed is the test of lines 143-147 on the advanced nextdr
StopKind(e, etol, it, ctol, crossed) ==
    IF e > etol THEN "CONVERGED"
    ELSE IF it = ctol - 1 THEN "BUDGET_EXHAUSTED"
    ELSE IF crossed THEN "BOUND_REACHED"
    ELSE "STEPPING"

\* the objective values the solver can report for a model whose optimum is base
SolverObjs(base) == { o \in ObjValues : np_log(o) - np_log(base) \in 0..2 }

\* lines 109-153: the solver returns a solution with objective o
SolveReturns(o) ==
    /\ pc = "solve"
    /\ o \in SolverObjs(self.obj)
    /\ m' = [m EXCEPT !.obj = o]
    /\ err' = ErrOf(o, Baseline(self, m))
    /\ var_dict' = DictSet(var_dict, Join(pname, dr, i), m.vars[pname].value)
    /\ obj_dict' = DictSet(obj_dict, Join(pname, dr, i), o)
    /\ LET slow == Slow(i, err', obj_dict', pname, dr, o, stepfrac)
       IN  /\ stepfrac' = NextStepfrac(slow, stepfrac, def_SF)
           /\ nslow' = IF slow THEN nslow + 1 ELSE 0
    /\ sf_hist' = Append(sf_hist, stepfrac')
    /\ LET nx == nextdr + StepOf(stepfrac', self.popt[pname])
           stop == StopKind(err', chi2_isf(self.alpha), i, self.ctol,
                            BdReach(dr, nx, bound))
       IN  IF stop = "CONVERGED"
             THEN /\ ret' = pardr
                  /\ outcome' = "CONVERGED"
                  /\ pc' = "ret"
                  /\ UNCHANGED <<nextdr, bdreach, i>>
             ELSE IF stop = "BUDGET_EXHAUSTED"
             THEN /\ ret' = Infinity(dr)
                  /\ outcome' = "BUDGET_EXHAUSTED"
                  /\ pc' = "ret"
                  /\ UNCHANGED <<nextdr, bdreach, i>>
             ELSE /\ nextdr' = nx
                  /\ bdreach' = BdReach(dr, nx, bound)
                  /\ IF stop = "BOUND_REACHED"
                       THEN /\ ret' = pardr
                            /\ outcome' = "BOUND_REACHED"
                            /\ pc' = "ret"
                            /\ i' = i
                       ELSE /\ i' = i + 1
                            /\ pc' = "loop"
                            /\ UNCHANGED <<ret, outcome>>
    /\ UNCHANGED <<exc, self, args, result, ciVars, ioVars, dr, bound, def_SF,
                   pstep, pardr, nsolves, up_sf_hist>>

\* lines 154-166: the solver raises
SolveRaises ==
    /\ pc = "solve"
    /\ IF Join(pname, dr, i - 1) \in DOMAIN var_dict
         THEN /\ pardr' = Rollback(var_dict, pname, dr, i)
              /\ var_dict' = DictPop(var_dict, Join(pname, dr, i))
              /\ obj_dict' = DictPop(obj_dict, Join(pname, dr, i))
              /\ i' = self.ctol
              /\ ret' = pardr'
              /\ outcome' = "SOLVE_FAILED"
              /\ pc' = "ret"
              /\ exc' = exc
         ELSE /\ outcome' = "RAISED"
              /\ exc' = "KeyError"
              /\ pc' = "done"
              /\ UNCHANGED <<pardr, var_dict, obj_dict, i, ret>>
    /\ UNCHANGED <<self, m, args, result, ciVars, ioVars, dr, bound, stepfrac, def_SF,
                   err, pstep, nextdr, bdreach, nsolves, nslow, sf_hist, up_sf_hist>>

\* -------------------------------------------------------------- get_CI
\* the largest maxSteps tried on this session
StepsAllowed == IF Len(self.pnames) = 1 THEN MaxSteps ELSE MaxPairSteps

\* lines 171-181
get_CI(maxSteps, alpha, sf) ==
    /\ pc = "ready"
    /\ maxSteps <= StepsAllowed
    /\ self' = SetAttr(SetAttr(self, "ctol", maxSteps), "alpha", alpha)
    /\ parub' = self.popt
    /\ parlb' = self.popt
    /\ ci_var_dict' = EmptyDict
    /\ ci_obj_dict' = EmptyDict
    /\ ci_stepfrac' = sf
    /\ pidx' = 1
    /\ pc' = "param"
    /\ UNCHANGED <<exc, m, args, result, ioVars, stepVars>>

\* the result under a misspelt key
CIResult_typo(lb, ub) ==
    [k \in {"Lower Bound", "Upper bound"} |-> IF k = "Lower Bound" THEN lb ELSE ub]

\* lines 220-224
CIResult(lb, ub) ==
    [k \in {"Lower Bound", "Upper Bound"} |-> IF k = "Lower Bound" THEN lb ELSE ub]

\* line 184: the next parameter, lines 186-196 up to the loop of the upward
\* run; after the last parameter lines 220-224
ParamStep ==
    /\ pc = "param"
    /\ IF pidx > Len(self.pnames)
         THEN /\ self' = SetAttr(SetAttr(SetAttr(SetAttr(self, "parub", parub),
                            "parlb", parlb), "var_dict", ci_var_dict), "obj_dict", ci_obj_dict)
              /\ result' = CIResult(parlb, parub)
              /\ pc' = "done"
              /\ UNCHANGED <<exc, m, stepVars>>
         ELSE /\ m' = Fix(m, pname)
              /\ IF FormatRaises(self.pbounds[pname][2])
                   THEN /\ exc' = "TypeError"
                        /\ pc' = "done"
                        /\ UNCHANGED stepVars
                   ELSE /\ EnterStepCI(pname, "up", ci_stepfrac)
                        /\ pc' = "loop"
                        /\ exc' = exc
              /\ UNCHANGED <<self, result>>
    /\ UNCHANGED <<args, ciVars, ioVars>>

\* lines 194-210 after the upward run, lines 208-217 after the downward run
StepReturns ==
    /\ pc = "ret"
    /\ ci_var_dict' = DictMerge(ci_var_dict, var_dict)
    /\ ci_obj_dict' = DictMerge(ci_obj_dict, obj_dict)
    /\ IF dr = "up"
         THEN /\ parub' = DictSet(parub, pname, ret)
              /\ IF FormatRaises(self.pbounds[pname][1])
                   THEN /\ exc' = "TypeError"
                        /\ pc' = "done"
                        /\ UNCHANGED <<m, stepVars>>
                   ELSE /\ m' = SetValue(m, pname, self.popt[pname])
                        /\ EnterStepCI(pname, "down", ci_stepfrac)
                        /\ pc' = "loop"
                        /\ exc' = exc
              /\ UNCHANGED <<parlb, pidx>>
         ELSE /\ parlb' = DictSet(parlb, pname, ret)
              /\ m' = Unfix(SetValue(m, pname, self.popt[pname]), pname)
              /\ pidx' = pidx + 1
              /\ pc' = "param"
              /\ UNCHANGED <<exc, parub, stepVars>>
    /\ UNCHANGED <<self, args, result, ci_stepfrac, ioVars>>

\* ----------------------------------------------------- to_json, load_json
\* a dump that loses the sign of an infinity
JsonFloat_nosign(x) ==
    IF x = PosInf \/ x = NegInf THEN [t |-> "Infinity", v |-> 0, members |-> EmptyDict]
    ELSE [t |-> "number", v |-> x, members |-> EmptyDict]

\* json.dump of a float: repr of a finite float, Infinity, -Infinity
JsonFloat(x) ==
    IF x = PosInf THEN [t |-> "Infinity", v |-> 0, members |-> EmptyDict]
    ELSE IF x = NegInf THEN [t |-> "-Infinity", v |-> 0, members |-> EmptyDict]
    ELSE [t |-> "number", v |-> x, members |-> EmptyDict]

\* json.dump of a dict of floats
JsonDict(d) ==
    [t |-> "object", v |-> 0, members |-> [k \in DOMAIN d |-> JsonFloat(d[k])]]

\* json.load of a number or a string
ParseScalar(tok) ==
    CASE tok.t = "number" -> tok.v
      [] tok.t = "Infinity" -> PosInf
      [] tok.t = "-Infinity" -> NegInf
      [] OTHER -> <<"str">>

\* json.load of a value
ParseValue(tok) ==
    IF tok.t = "object"
      THEN [k \in DOMAIN tok.members |-> ParseScalar(tok.members[k])]
      ELSE ParseScalar(tok)

\* line 318
atts == {"alpha", "parub", "parlb", "var_dict", "obj_dict"}

\* lines 319-323: the text json.dump writes for the session o
Dump(o) == [a \in atts |-> IF a = "alpha" THEN JsonFloat(o[a]) ELSE JsonDict(o[a])]

\* lines 328-329: the attributes of o after loading the record data
Load(o, data) ==
    [a \in (DOMAIN o) \cup (DOMAIN data) |->
       IF a \in DOMAIN data THEN ParseValue(data[a]) ELSE o[a]]

\* self.to_json(filename), once get_CI has returned or raised
to_json(filename) ==
    /\ pc = "done"
    /\ IF atts \subseteq DOMAIN self
         THEN /\ fs' = [fs EXCEPT ![filename] = [exists |-> TRUE, data |-> Dump(self)]]
              /\ io' = <<"to_json", filename, "none">>
         ELSE /\ io' = <<"to_json", filename, "AttributeError">>
              /\ fs' = fs
    /\ UNCHANGED <<pc, exc, self, fresh, m, args, result, ciVars, stepVars>>

\* fresh.load_json(filename), once get_CI has returned or raised
load_json(filename) ==
    /\ pc = "done"
    /\ IF fs[filename].exists
         THEN /\ fresh' = Load(fresh, fs[filename].data)
              /\ io' = <<"load_json", filename, "none">>
         ELSE /\ io' = <<"load_json", filename, "FileNotFoundError">>
              /\ fresh' = fresh
    /\ UNCHANGED <<pc, exc, self, fs, m, args, result, ciVars, stepVars>>

Next ==
    \/ \E solved \in BOOLEAN : Construct(solved)
    \/ \E n \in 0..Max(MaxSteps, MaxPairSteps), a \in Alphas, sf \in StepFracs : get_CI(n, a, sf)
    \/ ParamStep
    \/ LoopTest
    \/ \E o \in ObjValues : SolveReturns(o)
    \/ SolveRaises
    \/ StepReturns
    \/ to_json("out.json")
    \/ \E f \in FileNames : load_json(f)

Spec == Init /\ [][Next]_vars

\* ---------------------------------------------------------------- claims
\* get_CI has returned its result
Returned == pc = "done" /\ exc = "none"

\* the names get_CI profiles
Profiled == { self.pnames[j] : j \in 1..Len(self.pnames) }

\* C1: a solver failure at any iteration of step_CI, the first one (i = 0)
\* included, is recovered inside step_CI, which ends in SOLVE_FAILED with a
\* bound value; it never leaves step_CI and get_CI as an exception.
C1_FailureRecovered == exc # "KeyError"

\* the solver raises at iteration k > 0 and step_CI returns
FailStep == pc = "solve" /\ pc' = "ret" /\ outcome' = "SOLVE_FAILED"

\* C2: when the solve of iteration k > 0 fails, the returned bound is the
\* value recorded at iteration k-1, the trajectories hold no entry for k and
\* exactly the entries 0..k-1 as they were recorded, and no further solve is
\* made in that direction.
C2_RollbackToLastRecord ==
    [][ /\ FailStep =>
            /\ i > 0
            /\ ret' = var_dict[Join(pname, dr, i - 1)]
            /\ DOMAIN var_dict' = { Join(pname, dr, n) : n \in 0..(i - 1) }
            /\ DOMAIN obj_dict' = DOMAIN var_dict'
            /\ \A k \in DOMAIN var_dict' :
                  var_dict'[k] = var_dict[k] /\ obj_dict'[k] = obj_dict[k]
        /\ (outcome = "SOLVE_FAILED") => (pc' # "solve" /\ nsolves' <= nsolves)
      ]_vars

\* a run whose third solve (k = 2) failed
C2_Witness == pc = "ret" /\ outcome = "SOLVE_FAILED" /\ nsolves = 3

\* C3: a run that stops in BOUND_REACHED returns a value within its target
\* bound: not above it in an upward run, not below it in a downward run.
C3_BoundRespected ==
    (pc = "ret" /\ outcome = "BOUND_REACHED") =>
        IF dr = "up" THEN ret <= bound ELSE ret >= bound

\* both bounds of p are numbers and the optimum lies between them
Bracketed(p) ==
    /\ ~self.pbounds[p][1].isNone
    /\ ~self.pbounds[p][2].isNone
    /\ self.pbounds[p][1].v <= self.popt[p]
    /\ self.popt[p] <= self.pbounds[p][2].v

\* C4: when get_CI has returned, every profiled parameter with finite bounds
\* around its optimum has parlb[p] <= popt[p] <= parub[p], whatever the sign
\* of the optimum.
C4_IntervalContainsOptimum ==
    Returned =>
        \A p \in Profiled :
            Bracketed(p) =>
                (self.parlb[p] <= self.popt[p] /\ self.popt[p] <= self.parub[p])

\* C5: every run of step_CI ends in one of CONVERGED, BUDGET_EXHAUSTED,
\* BOUND_REACHED, SOLVE_FAILED with a bound value; it never leaves the loop
\* without a result.
C5_AlwaysAResult ==
    outcome \in {"none", "STEPPING", "CONVERGED", "BUDGET_EXHAUSTED",
                 "BOUND_REACHED", "SOLVE_FAILED"}

\* the current run of step_CI is over
RunOver == pc \in {"ret", "done"} /\ outcome \notin {"none", "STEPPING"}

\* C6: a run makes at most max_steps solves, and a run that used its budget
\* without a failed solve, without exceeding the threshold and without
\* stopping at the bound returns +inf upward and -inf downward.
C6_BudgetReturnsInfinity ==
    /\ HasAttr(self, "ctol") => nsolves <= self.ctol
    /\ (RunOver /\ nsolves = self.ctol
          /\ outcome \notin {"CONVERGED", "BOUND_REACHED", "SOLVE_FAILED", "RAISED"}) =>
         (outcome = "BUDGET_EXHAUSTED" /\ ret = Infinity(dr))

\* C7: the mapping get_CI returns has exactly the keys 'Lower Bound' and
\* 'Upper Bound', and each inner mapping has exactly the profiled names as keys.
C7_ResultShape ==
    Returned =>
        /\ DOMAIN result = {"Lower Bound", "Upper Bound"}
        /\ DOMAIN result["Lower Bound"] = Profiled
        /\ DOMAIN result["Upper Bound"] = Profiled

\* get_CI has returned for one parameter of a model with two variables, or for both
C7_Witness == Returned /\ Cardinality(DOMAIN m.vars) = 2 /\ result # EmptyDict

\* C8: load_json changes only the five persisted attributes of the session:
\* every other attribute keeps its value and no attribute is created.
C8_LoadFrame ==
    [][ (pc = "done" /\ fresh' # fresh) =>
            /\ DOMAIN fresh' \subseteq (DOMAIN fresh) \cup atts
            /\ \A a \in (DOMAIN fresh) \ atts : fresh'[a] = fresh[a]
      ]_vars

\* C9: after to_json(path) on a session whose get_CI returned and
\* load_json(path) on a fresh session, the five persisted attributes of the
\* fresh session equal those of the exporting session, infinite bounds included.
C9_RoundTrip ==
    (io = <<"load_json", "out.json", "none">>) =>
        \A a \in atts : HasAttr(fresh, a) /\ fresh[a] = self[a]

\* a round trip of a session with an infinite upper and an infinite lower bound
C9_Witness ==
    /\ io = <<"load_json", "out.json", "none">>
    /\ \E p \in Profiled : self.parub[p] = PosInf
    /\ \E p \in Profiled : self.parlb[p] = NegInf
    /\ \E p \in Profiled : self.parub[p] # PosInf /\ self.parlb[p] # NegInf
    /\ DOMAIN self.var_dict # {}

\* C10: a discretization identifier that is not a string makes the
\* constructor fail, with or without presolve.
C10_NonStringDaeRejected ==
    (args.dae = "nonstr" /\ pc # "new") => (pc = "failed" /\ exc = "TypeError")

\* the bound of the current parameter on the side the run moves to
SideBound == IF dr = "up" THEN self.pbounds[pname][2] ELSE self.pbounds[pname][1]

\* C11: the target bound of a run is the parameter's bound on the requested
\* side whenever there is one, 0 included; +inf (up) or the 1e-10 floor (down)
\* only when the parameter has no bound on that side.
C11_TargetIsSideBound ==
    (pc \in {"loop", "solve"}) =>
        bound = IF SideBound.isNone
                  THEN (IF dr = "up" THEN PosInf ELSE LB_FLOOR)
                  ELSE SideBound.v

\* a solve of the current run succeeds
SolveOk == pc = "solve" /\ pc' \in {"loop", "ret"} /\ outcome' # "SOLVE_FAILED"

\* C12: after a successful solve the stop conditions are tested in the order
\* convergence, budget, bound: an error above the threshold returns the
\* current value also on the last allowed iteration, an error within the
\* threshold on the last allowed iteration returns the signed infinity even
\* if the next value would cross the bound, and BOUND_REACHED needs
\* i < max_steps-1 and an error within the threshold.
C12_StopOrder ==
    [][ SolveOk =>
          /\ (err' > chi2_isf(self.alpha)) =>
                (outcome' = "CONVERGED" /\ ret' = pardr /\ pc' = "ret")
          /\ (err' <= chi2_isf(self.alpha) /\ i = self.ctol - 1) =>
                (outcome' = "BUDGET_EXHAUSTED" /\ ret' = Infinity(dr) /\ pc' = "ret")
          /\ (outcome' = "BOUND_REACHED") =>
                (i < self.ctol - 1 /\ err' <= chi2_isf(self.alpha) /\ ret' = pardr)
      ]_vars

\* the budget ends a run whose next value would cross the target bound
C12_Witness ==
    /\ pc = "ret"
    /\ outcome = "BUDGET_EXHAUSTED"
    /\ err <= chi2_isf(self.alpha)
    /\ BdReach(dr, nextdr + StepOf(stepfrac, self.popt[pname]), bound)

\* the error statistic of the objective recorded under key k
RecordedErr(k) == 200 * (np_log(obj_dict[k]) - np_log(self.obj))

\* C13: a run that ends in CONVERGED returns the first trial value whose
\* error exceeds the threshold: the last record has err > threshold, every
\* earlier record has err <= threshold, and the returned value is the
\* parameter value of the last record.
C13_FirstExceeding ==
    (pc = "ret" /\ outcome = "CONVERGED") =>
        /\ DOMAIN var_dict = { Join(pname, dr, n) : n \in 0..i }
        /\ DOMAIN obj_dict = DOMAIN var_dict
        /\ ret = var_dict[Join(pname, dr, i)]
        /\ RecordedErr(Join(pname, dr, i)) > chi2_isf(self.alpha)
        /\ \A n \in 0..(i - 1) : RecordedErr(Join(pname, dr, n)) <= chi2_isf(self.alpha)

\* a run that converges at its third iteration
C13_Witness == pc = "ret" /\ outcome = "CONVERGED" /\ i = 2 /\ nsolves = 3

\* sf * 1.05^n
RECURSIVE TimesPow105(_, _)
TimesPow105(sf, n) == IF n = 0 THEN sf ELSE (TimesPow105(sf, n - 1) * 21) \div 20

\* the step fraction in force at iteration j of the current run
InForce(j) == IF j = 0 THEN def_SF ELSE sf_hist[j]

\* sum over the iterations 0..j of (step fraction in force * optimum)
RECURSIVE SumSteps(_)
SumSteps(j) ==
    IF j < 0 THEN 0 ELSE SumSteps(j - 1) + InForce(j) * (self.popt[pname] \div SFDen)

\* C14: after every successful iteration the step fraction is the previous
\* one times 1.05 if d <= 0.01 and the original one otherwise, so that it is
\* always original * 1.05^n for the n successive slow iterations since the
\* last reset, never smaller in magnitude than the original, and the trial
\* value of iteration i is the optimum plus the sum over 0..i of
\* (step fraction in force * optimum).
C14_StepControl ==
    (pc \in {"loop", "solve", "ret"}) =>
        /\ stepfrac = TimesPow105(def_SF, nslow)
        /\ Abs(stepfrac) >= Abs(def_SF)
        /\ (pc = "solve") =>
              /\ pardr = self.popt[pname] + SumSteps(i)
              /\ m.vars[pname].value = pardr
        /\ \A n \in 0..(Len(sf_hist) - 1) :
              (Join(pname, dr, n) \in DOMAIN var_dict) =>
                  var_dict[Join(pname, dr, n)] = self.popt[pname] + SumSteps(n)

\* the third trial value of an upward run whose step fraction grew and was reset
C14_Witness ==
    /\ pc = "solve" /\ dr = "up" /\ i = 2
    /\ sf_hist[1] # def_SF
    /\ sf_hist[2] = def_SF
    /\ self.popt[pname] # 0

\* the profiled parameters that are fixed in the model
FixedProfiled == { p \in Profiled : m.vars[p].fixed }

\* a run of step_CI starts
RunStarts == pc \in {"param", "ret"} /\ pc' = "loop"

Indices(dict, p, d) ==
    { n \in 0..Max(MaxSteps, MaxPairSteps) : Join(p, d, n) \in DOMAIN dict }

\* the keys of the triples (parameter, direction, iteration)
TripleKeys ==
    { Join(p, d, n) : p \in Profiled, d \in {"up", "down"},
                      n \in 0..Max(MaxSteps, MaxPairSteps) }

\* C16: for distinct profiled names the session-wide trajectory holds exactly
\* one entry per retained successful solve: merging a run never overwrites an
\* earlier entry, var_dict and obj_dict have the same keys, a recorded entry
\* never changes, and the iterations recorded for a (parameter, direction)
\* are exactly 0..n-1.
C16_Trajectory ==
    /\ [](/\ DOMAIN ci_var_dict = DOMAIN ci_obj_dict
          /\ DOMAIN var_dict = DOMAIN obj_dict
          /\ (pc \notin {"new", "ready", "failed"}) =>
                /\ DOMAIN ci_var_dict \subseteq TripleKeys
                /\ \A p \in Profiled : \A d \in {"up", "down"} :
                      Indices(ci_var_dict, p, d) =
                          0..(Cardinality(Indices(ci_var_dict, p, d)) - 1)
          /\ (pc = "ret") => Cardinality(DOMAIN var_dict) = Len(sf_hist)
          /\ Returned =>
                (self.var_dict = ci_var_dict /\ self.obj_dict = ci_obj_dict))
    /\ [][ /\ \A k \in DOMAIN ci_var_dict :
                 /\ k \in DOMAIN ci_var_dict'
                 /\ ci_var_dict'[k] = ci_var_dict[k]
                 /\ ci_obj_dict'[k] = ci_obj_dict[k]
           /\ (pc = "ret") =>
                 Cardinality(DOMAIN ci_var_dict') =
                     Cardinality(DOMAIN ci_var_dict) + Cardinality(DOMAIN var_dict)
           /\ (pc = "solve") =>
                 \A k \in DOMAIN var_dict :
                     (k \in DOMAIN var_dict') =>
                         (var_dict'[k] = var_dict[k] /\ obj_dict'[k] = obj_dict[k])
         ]_vars

\* get_CI returned a trajectory with records of all four runs of two parameters
C16_Witness ==
    /\ Returned
    /\ Len(self.pnames) = 2
    /\ \A p \in Profiled : \A d \in {"up", "down"} : Indices(self.var_dict, p, d) # {}
    /\ \E p \in Profiled : \E d \in {"up", "down"} : 1 \in Indices(self.var_dict, p, d)

\* the first n objective values of the downward run under way are the ones
\* the upward run of the same parameter recorded
SameObjs(n) ==
    \A j \in 0..(n - 1) :
        /\ Join(pname, "up", j) \in DOMAIN ci_obj_dict
        /\ Join(pname, "down", j) \in DOMAIN obj_dict
        /\ ci_obj_dict[Join(pname, "up", j)] = obj_dict[Join(pname, "down", j)]

\* C17: for a positive optimum and the same sequence of objective values, the
\* magnitude of the step fraction after each iteration of the downward run
\* equals the magnitude after the same iteration of the upward run.
C17_DirectionSymmetric ==
    (pc \in {"loop", "solve", "ret"} /\ dr = "down" /\ self.popt[pname] > 0) =>
        \A n \in 1..Len(sf_hist) :
            (n <= Len(up_sf_hist) /\ SameObjs(n)) =>
                Abs(sf_hist[n]) = Abs(up_sf_hist[n])

\* a step of get_CI or of a run of step_CI
InGetCI == pc \in {"ready", "param", "loop", "solve", "ret"}

\* C18: get_CI and step_CI leave popt, pbounds and the baseline objective of
\* the session unchanged (writing a bound into parub or parlb included), keep
\* alpha, the budget and the step fraction of the call, start every run from
\* the original step fraction, the optimum and zero accumulated step, and
\* measure every error against the baseline objective of the session.
C18_ReferenceFrame ==
    [][ InGetCI =>
          /\ self'.popt = self.popt
          /\ self'.pbounds = self.pbounds
          /\ self'.obj = self.obj
          /\ (pc # "ready") =>
                /\ self'.alpha = self.alpha
                /\ self'.ctol = self.ctol
                /\ ci_stepfrac' = ci_stepfrac
          /\ RunStarts =>
                /\ stepfrac' = def_SF'
                /\ Abs(stepfrac') = ci_stepfrac'
                /\ pstep' = 0
                /\ i' = 0
                /\ err' = 0
                /\ pardr' = self.popt[pname']
          /\ SolveOk =>
                err' = 200 * (np_log(m'.obj) - np_log(self.obj))
      ]_vars

\* the downward run of the second parameter has returned after a successful
\* solve, the model's objective is no longer the baseline, and the upper bound
\* written for the first parameter differs from its optimum
C18_Witness ==
    /\ pc = "ret"
    /\ pidx = 2
    /\ dr = "down"
    /\ outcome # "SOLVE_FAILED"
    /\ nsolves >= 2
    /\ m.obj # self.obj
    /\ parub[self.pnames[1]] # self.popt[self.pnames[1]]

====
